---- MODULE Spec2Model ----
(***************************************************************************)
(* A model of world/views.py: the property store (CampaignProperty and     *)
(* MapProperty rows with default/user scope), the permission handlers      *)
(* built on it, and the campaign action log with its cursor-based sync.    *)
(*                                                                         *)
(* Each HTTP handler is one action (the sync handler, whose statements     *)
(* interleave with those of concurrent requests, is one action per         *)
(* database statement).  The response of the last handled request is kept  *)
(* in the variable last.                                                   *)
(***************************************************************************)
EXTENDS Integers, Sequences, FiniteSets, Bags, TLC

VARIABLES
    campaignProperty,   \* the CampaignProperty table: a bag of rows
    mapProperty,        \* the MapProperty table: a bag of rows
    maps,               \* the Map table: map_id -> row
    last,               \* the last request handled and its JSON response
    action,             \* the Action table: a set of rows
    pk,                 \* the Action table's next primary key
    now,                \* the clock timezone.now() reads
    req,                \* session -> its update_actions request in progress
    client              \* session -> what the client behind it has kept

syncVars == <<action, pk, now, req, client>>

vars ==
    <<campaignProperty, mapProperty, maps, last, action, pk, now, req, client>>

----------------------------------------------------------------------------
(* Identities and input alphabets *)

\* user=None / user__isnull=True: the default scope.  A JSON null (or any
\* falsy) "player" is the same scope (`if player:`).
NoUser == 0

Users == {1, 2}

Scopes == Users \cup {NoUser}

Campaigns == {"c1", "c2"}

CampaignIds == {"c1", "c0"}

MapIds == {"m1", "m0"}

Entities == {"e1", "e2"}

PERMISSIONS ==
    {"SHARED_NAME", "SHARED_POSITION", "SHARED_VISION", "SHARED_CONTROL",
     "SHARED_HEALTH", "SHARED_STAMINA", "SHARED_MANA"}

\* the dict literal of map_permissions
PropertyName ==
    [name |-> "SHARED_NAME", position |-> "SHARED_POSITION",
     vision |-> "SHARED_VISION", control |-> "SHARED_CONTROL",
     health |-> "SHARED_HEALTH", stamina |-> "SHARED_STAMINA",
     mana |-> "SHARED_MANA"]

----------------------------------------------------------------------------
(* The ORM calls the handlers make, on a table held as a bag of rows *)

\* A QuerySet.filter(...) is the set of the distinct rows it selects, written
\* {r \in DOMAIN table : ...} where it is made.

\* len(queryset): the rows selected, copies counted
Count(table, rows) ==
    BagCardinality([r \in rows \cap DOMAIN table |-> table[r]])

\* queryset.delete()
Delete(table, rows) == [r \in DOMAIN table \ rows |-> table[r]]

\* Model.objects.create(...)
Insert(table, row) == table (+) SetToBag({row})

\* instance.delete()
Remove(table, row) == table (-) SetToBag({row})

\* the body of a sequence of rows as the JSON list [{'name':..,'value':..}]
NameValue(r) == [name |-> r.name, value |-> r.value]

Properties(table, rows) ==
    [nv \in {NameValue(r) : r \in rows} |->
        Count(table, {r \in rows : NameValue(r) = nv})]

\* an upsert that creates the row without looking for it
Upsert_AlwaysInserts(table, rows, row) ==
    [status |-> 200, table |-> Insert(table, row)]

\* an upsert that finds the row and never writes the new value to it
Upsert_KeepsValue(table, rows, row) ==
    IF Count(table, rows) = 0
    THEN [status |-> 200, table |-> Insert(table, row)]
    ELSE [status |-> 200, table |-> table]

\* Model.objects.get_or_create(**lookup)[0]; value = body; save():
\* one matching row is updated in place, none creates the row, several raise
\* MultipleObjectsReturned (answered 500 by `except Exception`)
Upsert(table, rows, row) ==
    LET n == Count(table, rows)
    IN  IF n = 0 THEN [status |-> 200, table |-> Insert(table, row)]
        ELSE IF n = 1
             THEN LET old == CHOOSE r \in rows : TRUE
                  IN  [status |-> 200,
                       table |-> Insert(Remove(table, old),
                                        [old EXCEPT !.value = row.value])]
             ELSE [status |-> 500, table |-> table]

\* a delete written as filter(**lookup).delete(): it never answers 404
DeleteOne_Quiet(table, rows) == [status |-> 200, table |-> Delete(table, rows)]

\* get_object_or_404(Model, **lookup).delete()
DeleteOne(table, rows) ==
    LET n == Count(table, rows)
    IN  IF n = 0 THEN [status |-> 404, table |-> table]
        ELSE IF n = 1
             THEN [status |-> 200,
                   table |-> Remove(table, CHOOSE r \in rows : TRUE)]
             ELSE [status |-> 500, table |-> table]

\* get_object_or_404(Map, campaign__campaign_id=campaign_id, map_id=map_id)
MapExists(campaign_id, map_id) ==
    map_id \in DOMAIN maps /\ maps[map_id].campaign = campaign_id

\* the request is the one handled just before, sent again
Retry(call) == last.op = call.op /\ \A f \in DOMAIN call : last[f] = call[f]

CRow(c, u, n, v) == [campaign |-> c, user |-> u, name |-> n, value |-> v]

MRow(m, u, n, v) == [map |-> m, user |-> u, name |-> n, value |-> v]

----------------------------------------------------------------------------
(* Campaign properties *)

\* a lookup that tries the default row first and the user's row second
CampaignPropertyResponses_DefaultFirst(table, user, campaign_id, property_name) ==
    LET props == {r \in DOMAIN table : /\ r.campaign = campaign_id /\ r.user = user
                                       /\ r.name = property_name}
        defaults == {r \in DOMAIN table : /\ r.campaign = campaign_id /\ r.user = NoUser
                                          /\ r.name = property_name}
    IN  IF campaign_id \notin Campaigns THEN {[status |-> 404]}
        ELSE IF defaults # {}
             THEN {[status |-> 200, properties |-> SetToBag({NameValue(r)})] :
                       r \in defaults}
             ELSE IF props # {}
                  THEN {[status |-> 200, properties |-> SetToBag({NameValue(r)})] :
                            r \in props}
                  ELSE {[status |-> 404]}

\* props[0] if props else get_object_or_404(CampaignProperty, user=None, ...):
\* the responses the handler can give (props is unordered, so any user row
\* may be props[0])
CampaignPropertyResponses(table, user, campaign_id, property_name) ==
    LET props == {r \in DOMAIN table : /\ r.campaign = campaign_id /\ r.user = user
                                       /\ r.name = property_name}
        defaults == {r \in DOMAIN table : /\ r.campaign = campaign_id /\ r.user = NoUser
                                          /\ r.name = property_name}
    IN  IF campaign_id \notin Campaigns THEN {[status |-> 404]}
        ELSE IF props # {}
             THEN {[status |-> 200, properties |-> SetToBag({NameValue(r)})] :
                       r \in props}
             ELSE IF Count(table, defaults) = 0 THEN {[status |-> 404]}
             ELSE IF Count(table, defaults) = 1
                  THEN {[status |-> 200, properties |-> SetToBag({NameValue(r)})] :
                            r \in defaults}
                  ELSE {[status |-> 500]}

load_campaign_property(user, campaign_id, property_name) ==
    /\ \E resp \in CampaignPropertyResponses(campaignProperty, user,
                                              campaign_id, property_name) :
           last' = [op |-> "load_campaign_property", user |-> user,
                    owner |-> campaign_id, name |-> property_name,
                    resp |-> resp]
    /\ UNCHANGED <<campaignProperty, mapProperty, maps, syncVars>>

\* the properties list of load_campaign: the user's rows, then the default
\* rows whose name is not a name of the user's rows
CampaignProperties(table, user, campaign_id) ==
    LET user_properties == {r \in DOMAIN table : r.campaign = campaign_id /\ r.user = user}
        property_names == {r.name : r \in user_properties}
        default_properties == {r \in DOMAIN table : r.campaign = campaign_id /\ r.user = NoUser}
    IN  Properties(table, user_properties)
        (+) Properties(table, {p \in default_properties : p.name \notin property_names})

CampaignResponse(table, user, campaign_id) ==
    LET masters == {r \in DOMAIN table : r.campaign = campaign_id /\ r.name = "IS_MASTER"}
        players == {r.user : r \in {x \in DOMAIN table : /\ x.campaign = campaign_id
                                                         /\ x.name = "IS_PLAYER"}}
    IN  IF campaign_id \notin Campaigns THEN [status |-> 404]
        ELSE IF Count(table, masters) = 0 THEN [status |-> 404]
        ELSE IF Count(table, masters) > 1 THEN [status |-> 500]
        \* None.username
        ELSE IF NoUser \in {r.user : r \in masters} \cup players
             THEN [status |-> 500]
        ELSE [status |-> 200,
              properties |-> CampaignProperties(table, user, campaign_id),
              players |-> players]

load_campaign(user, campaign_id) ==
    /\ last' = [op |-> "load_campaign", user |-> user, owner |-> campaign_id,
                resp |-> CampaignResponse(campaignProperty, user, campaign_id)]
    /\ UNCHANGED <<campaignProperty, mapProperty, maps, syncVars>>

WriteCampaignProperty(op, caller, scope, campaign_id, property_name, body) ==
    LET found == {r \in DOMAIN campaignProperty :
                     /\ r.campaign = campaign_id /\ r.user = scope
                     /\ r.name = property_name}
        res == IF campaign_id \notin Campaigns
               THEN [status |-> 404, table |-> campaignProperty]
               ELSE Upsert(campaignProperty, found,
                           CRow(campaign_id, scope, property_name, body))
    IN  /\ campaignProperty' = res.table
        /\ last' = [op |-> op, user |-> caller, owner |-> campaign_id,
                    name |-> property_name, value |-> body,
                    before |-> {r.value : r \in found},
                    retry |-> Retry([op |-> op, user |-> caller,
                                     owner |-> campaign_id,
                                     name |-> property_name, value |-> body]),
                    resp |-> [status |-> res.status]]
        /\ UNCHANGED <<mapProperty, maps, syncVars>>

save_campaign_property(user, campaign_id, property_name, body) ==
    WriteCampaignProperty("save_campaign_property", user, user,
                          campaign_id, property_name, body)

default_campaign_property(user, campaign_id, property_name, body) ==
    WriteCampaignProperty("default_campaign_property", user, NoUser,
                          campaign_id, property_name, body)

delete_campaign_property(user, campaign_id, property_name) ==
    LET found == {r \in DOMAIN campaignProperty :
                     /\ r.campaign = campaign_id /\ r.user = user
                     /\ r.name = property_name}
        res == IF campaign_id \notin Campaigns
               THEN [status |-> 404, table |-> campaignProperty]
               ELSE DeleteOne(campaignProperty, found)
    IN  /\ campaignProperty' = res.table
        /\ last' = [op |-> "delete_campaign_property", user |-> user,
                    owner |-> campaign_id, name |-> property_name,
                    before |-> {r.value : r \in found},
                    resp |-> [status |-> res.status]]
        /\ UNCHANGED <<mapProperty, maps, syncVars>>

----------------------------------------------------------------------------
(* Map properties *)

WriteMapProperty(op, caller, scope, campaign_id, map_id, property_name, body) ==
    LET found == {r \in DOMAIN mapProperty :
                     r.map = map_id /\ r.user = scope /\ r.name = property_name}
        res == IF ~MapExists(campaign_id, map_id)
               THEN [status |-> 404, table |-> mapProperty]
               ELSE Upsert(mapProperty, found,
                           MRow(map_id, scope, property_name, body))
    IN  /\ mapProperty' = res.table
        /\ last' = [op |-> op, user |-> caller, owner |-> map_id,
                    name |-> property_name, value |-> body,
                    before |-> {r.value : r \in found},
                    retry |-> Retry([op |-> op, user |-> caller,
                                     owner |-> map_id,
                                     name |-> property_name, value |-> body]),
                    resp |-> [status |-> res.status]]
        /\ UNCHANGED <<campaignProperty, maps, syncVars>>

save_map_property(user, campaign_id, map_id, property_name, body) ==
    WriteMapProperty("save_map_property", user, user,
                     campaign_id, map_id, property_name, body)

default_map_property(user, campaign_id, map_id, property_name, body) ==
    WriteMapProperty("default_map_property", user, NoUser,
                     campaign_id, map_id, property_name, body)

delete_map_property(user, campaign_id, map_id, property_name) ==
    LET found == {r \in DOMAIN mapProperty :
                     r.map = map_id /\ r.user = user /\ r.name = property_name}
        res == IF ~MapExists(campaign_id, map_id)
               THEN [status |-> 404, table |-> mapProperty]
               ELSE DeleteOne(mapProperty, found)
    IN  /\ mapProperty' = res.table
        /\ last' = [op |-> "delete_map_property", user |-> user,
                    owner |-> map_id, name |-> property_name,
                    before |-> {r.value : r \in found},
                    resp |-> [status |-> res.status]]
        /\ UNCHANGED <<campaignProperty, maps, syncVars>>

\* the resolution load_campaign makes, applied to a map: a default row is
\* left out when the user has a row of its name
MapProperties_UserOverrides(table, user_id, map_id) ==
    LET user_properties == {r \in DOMAIN table : r.map = map_id /\ r.user = user_id}
        property_names == {r.name : r \in user_properties}
        default_properties == {r \in DOMAIN table : r.map = map_id /\ r.user = NoUser}
    IN  Properties(table, user_properties)
        (+) Properties(table, {p \in default_properties : p.name \notin property_names})

\* MapProperty.objects.filter(Q(map=tile_map, user=...) | Q(map=tile_map,
\* user__isnull=True)) as the list [{'name':..,'value':..}]
MapProperties(table, user_id, map_id) ==
    Properties(table, {r \in DOMAIN table : \/ r.map = map_id /\ r.user = user_id
                                            \/ r.map = map_id /\ r.user = NoUser})

MapPropertiesResponse(table, user_id, campaign_id, map_id) ==
    IF ~MapExists(campaign_id, map_id) THEN [status |-> 404]
    ELSE [status |-> 200, properties |-> MapProperties(table, user_id, map_id)]

load_map_properties(user, campaign_id, map_id) ==
    /\ last' = [op |-> "load_map_properties", user |-> user, owner |-> map_id,
                resp |-> MapPropertiesResponse(mapProperty, user, campaign_id, map_id)]
    /\ UNCHANGED <<campaignProperty, mapProperty, maps, syncVars>>

load_map_properties_for_user(user, campaign_id, map_id, user_id) ==
    /\ last' = [op |-> "load_map_properties_for_user", user |-> user_id,
                owner |-> map_id,
                resp |-> MapPropertiesResponse(mapProperty, user_id, campaign_id, map_id)]
    /\ UNCHANGED <<campaignProperty, mapProperty, maps, syncVars>>

----------------------------------------------------------------------------
(* Permissions: MapProperty rows named in PERMISSIONS, valued by the entity *)

\* a reset whose filter has lost map=tile_map
reset_permissions_EveryMap(campaign_id, map_id, entities) ==
    LET hit == {r \in DOMAIN mapProperty :
                   r.name \in PERMISSIONS /\ r.value \in entities}
    IN  /\ mapProperty' = IF MapExists(campaign_id, map_id)
                           THEN Delete(mapProperty, hit) ELSE mapProperty
        /\ last' = [op |-> "reset_permissions", owner |-> map_id,
                    entities |-> entities,
                    retry |-> Retry([op |-> "reset_permissions",
                                     owner |-> map_id, entities |-> entities]),
                    resp |-> [status |-> IF MapExists(campaign_id, map_id)
                                         THEN 200 ELSE 404]]
        /\ UNCHANGED <<campaignProperty, maps, syncVars>>

reset_permissions(campaign_id, map_id, entities) ==
    LET hit == {r \in DOMAIN mapProperty :
                   r.map = map_id /\ r.name \in PERMISSIONS /\ r.value \in entities}
        retry == Retry([op |-> "reset_permissions", owner |-> map_id,
                        entities |-> entities])
    IN  /\ IF MapExists(campaign_id, map_id)
           THEN /\ mapProperty' = Delete(mapProperty, hit)
                /\ last' = [op |-> "reset_permissions", owner |-> map_id,
                            entities |-> entities, retry |-> retry,
                            resp |-> [status |-> 200]]
           ELSE /\ mapProperty' = mapProperty
                /\ last' = [op |-> "reset_permissions", owner |-> map_id,
                            entities |-> entities, retry |-> retry,
                            resp |-> [status |-> 404]]
        /\ UNCHANGED <<campaignProperty, maps, syncVars>>

\* a reset for players that takes the default scope's rows with it
default_permissions_AndDefault(campaign_id, map_id, entities, players) ==
    LET hit == {r \in DOMAIN mapProperty :
                   /\ r.map = map_id /\ r.user \in players \cup {NoUser}
                   /\ r.name \in PERMISSIONS /\ r.value \in entities}
    IN  /\ mapProperty' = IF MapExists(campaign_id, map_id)
                           THEN Delete(mapProperty, hit) ELSE mapProperty
        /\ last' = [op |-> "default_permissions", owner |-> map_id,
                    entities |-> entities, players |-> players,
                    retry |-> Retry([op |-> "default_permissions",
                                     owner |-> map_id, entities |-> entities,
                                     players |-> players]),
                    resp |-> [status |-> IF MapExists(campaign_id, map_id)
                                         THEN 200 ELSE 404]]
        /\ UNCHANGED <<campaignProperty, maps, syncVars>>

\* players is the list of the body; the empty set stands for every falsy
\* value of it ([] and null)
default_permissions(campaign_id, map_id, entities, players) ==
    LET HitPlayers == {r \in DOMAIN mapProperty :
                          /\ r.map = map_id /\ r.user \in players
                          /\ r.name \in PERMISSIONS /\ r.value \in entities}
        HitDefault == {r \in DOMAIN mapProperty :
                          /\ r.map = map_id /\ r.user = NoUser
                          /\ r.name \in PERMISSIONS /\ r.value \in entities}
        retry == Retry([op |-> "default_permissions", owner |-> map_id,
                        entities |-> entities, players |-> players])
    IN  /\ IF MapExists(campaign_id, map_id)
           THEN /\ mapProperty' = IF players # {}
                                  THEN Delete(mapProperty, HitPlayers)
                                  ELSE Delete(mapProperty, HitDefault)
                /\ last' = [op |-> "default_permissions", owner |-> map_id,
                            entities |-> entities, players |-> players,
                            retry |-> retry, resp |-> [status |-> 200]]
           ELSE /\ mapProperty' = mapProperty
                /\ last' = [op |-> "default_permissions", owner |-> map_id,
                            entities |-> entities, players |-> players,
                            retry |-> retry, resp |-> [status |-> 404]]
        /\ UNCHANGED <<campaignProperty, maps, syncVars>>

\* a get_or_create that creates without looking for the row
GetOrCreate_AlwaysCreates(table, row) ==
    [status |-> 200, table |-> Insert(table, row)]

\* MapProperty.objects.get_or_create(map=, user=, name=, value=)[0].save()
GetOrCreate(table, row) ==
    LET n == Count(table, {row})
    IN  IF n = 0 THEN [status |-> 200, table |-> Insert(table, row)]
        ELSE IF n = 1 THEN [status |-> 200, table |-> table]
        ELSE [status |-> 500, table |-> table]

\* a clearing that drops the user filter: every owner's rows on the entity go
ClearPlayer_EveryOwner(table, map_id, player_reset, player, entity) ==
    LET hit == {r \in DOMAIN table :
                   r.map = map_id /\ r.name \in PERMISSIONS /\ r.value = entity}
    IN  IF player \notin player_reset THEN Delete(table, hit) ELSE table

\* `if player not in player_reset:` ... `player_reset.append(player)`: the
\* rows the entry's player holds on the entry's entity are deleted the first
\* time the player is met in the batch
ClearPlayer(table, map_id, player_reset, player, entity) ==
    LET hit == {r \in DOMAIN table : /\ r.map = map_id /\ r.user = player
                                     /\ r.name \in PERMISSIONS /\ r.value = entity}
    IN  IF player \notin player_reset THEN Delete(table, hit) ELSE table

\* one turn of `for permission in permissions:`; an unknown permission is a
\* KeyError, answered 500 by `except Exception`
AssignEntry(st, map_id, permission) ==
    IF st.status # 200 THEN st
    ELSE IF permission.permission \notin DOMAIN PropertyName
         THEN [st EXCEPT !.status = 500]
    ELSE LET cleared == ClearPlayer(st.table, map_id, st.player_reset,
                                    permission.player, permission.entity)
             got == GetOrCreate(cleared,
                                MRow(map_id, permission.player,
                                     PropertyName[permission.permission],
                                     permission.entity))
         IN  [status |-> got.status, table |-> got.table,
              player_reset |-> st.player_reset \cup {permission.player}]

\* the state of the loop after the first n entries of the batch
RECURSIVE AssignPrefix(_, _, _, _)
AssignPrefix(table, map_id, permissions, n) ==
    IF n = 0 THEN [status |-> 200, table |-> table, player_reset |-> {}]
    ELSE AssignEntry(AssignPrefix(table, map_id, permissions, n - 1),
                     map_id, permissions[n])

map_permissions(campaign_id, map_id, permissions) ==
    LET res == IF ~MapExists(campaign_id, map_id)
               THEN [status |-> 404, table |-> mapProperty]
               ELSE AssignPrefix(mapProperty, map_id, permissions, Len(permissions))
    IN  /\ mapProperty' = res.table
        /\ last' = [op |-> "map_permissions", owner |-> map_id,
                    permissions |-> permissions,
                    retry |-> Retry([op |-> "map_permissions", owner |-> map_id,
                                     permissions |-> permissions]),
                    resp |-> [status |-> res.status]]
        /\ UNCHANGED <<campaignProperty, maps, syncVars>>

----------------------------------------------------------------------------
(* The action log and update_actions, the sync handler.  A request runs as   *)
(* the statements of the handler, one step each; the steps of concurrent     *)
(* requests interleave.                                                      *)

\* Each session is a client behind one authenticated user: "a" and "b" are
\* two sessions of user 1, "c" is user 2.
Sessions == {"a", "b", "c"}

SessionUser == [a |-> 1, b |-> 1, c |-> 2]

\* the last instant the clock reaches (it starts at 1)
MaxNow == 2

\* the most Action rows ever created
MaxActions == 2

\* the longest batch a sync request posts
MaxPost == 1

\* the UTC offset of the server's time zone
LocalOffset == 1

\* An ISO-8601 string is held as the wall time it shows and the offset it
\* shows; datetime.fromisoformat(datetime_iso) is the instant it names.
FromIsoFormat(iso) == iso.wall - iso.off

\* timezone.localtime(created).isoformat(timespec='microseconds')
LocalIsoFormat(created) ==
    [wall |-> created + LocalOffset, off |-> LocalOffset]

\* A posted action is the dict {'map': .., 'payload': ..} ("" is no map);
\* json.dumps(action) is its text, json.loads(x.data) the dict read back.
Dumps(item) == <<"{", "map", item.map, "payload", item.payload, "}">>

Loads(data) == [map |-> data[3], payload |-> data[5]]

\* the filter without its created__gt condition
SinceCursor_WholeCampaign(table, campaign_id, datetime_iso) ==
    {x \in table : x.campaign = campaign_id}

\* the filter with created__gte in place of created__gt
SinceCursor_FromCursor(table, campaign_id, datetime_iso) ==
    {x \in table : x.campaign = campaign_id
                   /\ x.created >= FromIsoFormat(datetime_iso)}

\* Action.objects.filter(campaign=campaign, created__gt=fromisoformat(datetime_iso))
SinceCursor(table, campaign_id, datetime_iso) ==
    {x \in table : x.campaign = campaign_id
                   /\ x.created > FromIsoFormat(datetime_iso)}

\* the row a queryset of Action rows yields first: the oldest by creation
\* time (the earlier insert among equal times)
Earliest(rows) ==
    CHOOSE x \in rows :
        \A y \in rows : x.created < y.created
                        \/ (x.created = y.created /\ x.pk <= y.pk)

\* the rows latest first
RECURSIVE CreationOrder_NewestFirst(_)
CreationOrder_NewestFirst(rows) ==
    IF rows = {} THEN <<>>
    ELSE CreationOrder_NewestFirst(rows \ {Earliest(rows)}) \o <<Earliest(rows)>>

\* list(queryset): the rows in creation order
RECURSIVE CreationOrder(_)
CreationOrder(rows) ==
    IF rows = {} THEN <<>>
    ELSE <<Earliest(rows)>> \o CreationOrder(rows \ {Earliest(rows)})

\* queryset.last()
Latest(rows) == CreationOrder(rows)[Cardinality(rows)]

\* the queryset with nothing excluded
ExcludeUser_Nobody(rows, user) == rows

\* actions.exclude(user=request.user)
ExcludeUser(rows, user) == {x \in rows : x.user # user}

Idle == [pc |-> "idle"]

\* a client that feeds each returned date back as its next cursor
Chained == {"a"}

\* the cursor every client starts from: an instant before the clock's first
ChainStart == [wall |-> 0, off |-> 0]

\* the cursors a client supplies of its own accord, as UTC strings
SuppliedCursors == {[wall |-> t, off |-> 0] : t \in 0..MaxNow - 1}

\* the actions the clients post: one without a map, one on map m1
Items == {[map |-> "", payload |-> "P"], [map |-> "m1", payload |-> "Q"]}

\* rows created so far and rows the requests in progress will still create
Pending ==
    LET busy == {s \in Sessions : req[s].pc \in {"now", "create"}}
        RECURSIVE Sum(_)
        Sum(S) == IF S = {} THEN 0
                  ELSE LET s == CHOOSE x \in S : TRUE
                       IN  Len(req[s].todo) + Sum(S \ {s})
    IN  (pk - 1) + Sum(busy)

Response(s, r, resp) ==
    [op |-> "update_actions", session |-> s, user |-> SessionUser[s],
     owner |-> r.campaign, cursor_in |-> r.cursor_in, resp |-> resp]

\* the request arrives: campaign = get_object_or_404(Campaign, ...) and the
\* body is read
update_actions_request(s, campaign_id, datetime_iso, actions_post) ==
    /\ req[s].pc = "idle"
    /\ Pending + Len(actions_post) <= MaxActions
    /\ LET r == IF actions_post = <<>>
                THEN [pc |-> "if_actions", campaign |-> campaign_id,
                      cursor_in |-> datetime_iso]
                ELSE [pc |-> "now", campaign |-> campaign_id,
                      cursor_in |-> datetime_iso, posted |-> actions_post,
                      todo |-> actions_post, made |-> <<>>]
       IN  IF campaign_id \in Campaigns
           THEN /\ req' = [req EXCEPT ![s] = r]
                /\ last' = last
           ELSE /\ req' = req
                /\ last' = Response(s, r, [status |-> 404])
    /\ UNCHANGED <<campaignProperty, mapProperty, maps, action, pk, now, client>>

\* a loop that skips an item whose map is missing and goes on with the rest
update_actions_now_SkipsItem(s) ==
    /\ req[s].pc = "now"
    /\ LET item == Head(req[s].todo)
           rest == Tail(req[s].todo)
           skip == item.map # "" /\ ~MapExists(req[s].campaign, item.map)
       IN  req' = [req EXCEPT ![s] =
                      IF skip /\ rest = <<>>
                      THEN [pc |-> "if_actions", campaign |-> req[s].campaign,
                            cursor_in |-> req[s].cursor_in]
                      ELSE IF skip
                      THEN [req[s] EXCEPT !.todo = rest]
                      ELSE [pc |-> "create", campaign |-> req[s].campaign,
                            cursor_in |-> req[s].cursor_in,
                            posted |-> req[s].posted,
                            todo |-> req[s].todo, made |-> req[s].made,
                            created |-> now]]
    /\ UNCHANGED <<campaignProperty, mapProperty, maps, last, action, pk, now, client>>

\* one turn of `for action in actions_post:` up to the INSERT: the map is
\* looked up, and Action.objects.create(...) takes the row's creation time
\* from the clock
update_actions_now(s) ==
    /\ req[s].pc = "now"
    /\ LET item == Head(req[s].todo)
       IN  IF item.map # "" /\ ~MapExists(req[s].campaign, item.map)
           THEN /\ req' = [req EXCEPT ![s] = Idle]
                /\ last' = Response(s, req[s], [status |-> 404])
           ELSE /\ req' = [req EXCEPT ![s] =
                              [pc |-> "create", campaign |-> req[s].campaign,
                               cursor_in |-> req[s].cursor_in,
                               posted |-> req[s].posted,
                               todo |-> req[s].todo, made |-> req[s].made,
                               created |-> now]]
                /\ last' = last
    /\ UNCHANGED <<campaignProperty, mapProperty, maps, action, pk, now, client>>

\* the INSERT of Action.objects.create(campaign=, map=, user=request.user,
\* data=json.dumps(action))
update_actions_create(s) ==
    /\ req[s].pc = "create"
    /\ LET item == Head(req[s].todo)
           rest == Tail(req[s].todo)
       IN  /\ action' = action \cup
                  {[pk |-> pk, campaign |-> req[s].campaign, map |-> item.map,
                    user |-> SessionUser[s], data |-> Dumps(item),
                    created |-> req[s].created]}
           /\ req' = [req EXCEPT ![s] =
                         IF rest = <<>>
                         THEN [pc |-> "if_actions", campaign |-> req[s].campaign,
                               cursor_in |-> req[s].cursor_in]
                         ELSE [pc |-> "now", campaign |-> req[s].campaign,
                               cursor_in |-> req[s].cursor_in,
                               posted |-> req[s].posted, todo |-> rest,
                               made |-> Append(req[s].made, pk)]]
    /\ pk' = pk + 1
    /\ client' = [client EXCEPT ![s].sent = @ \cup {pk}]
    /\ UNCHANGED <<campaignProperty, mapProperty, maps, last, now>>

\* `... if actions else datetime_iso`: the queryset is evaluated for its
\* truth value
update_actions_if_actions(s) ==
    /\ req[s].pc = "if_actions"
    /\ req' = [req EXCEPT ![s] =
                  IF SinceCursor(action, req[s].campaign, req[s].cursor_in) # {}
                  THEN [pc |-> "last", campaign |-> req[s].campaign,
                        cursor_in |-> req[s].cursor_in]
                  ELSE [pc |-> "exclude", campaign |-> req[s].campaign,
                        cursor_in |-> req[s].cursor_in,
                        date |-> req[s].cursor_in]]
    /\ UNCHANGED <<campaignProperty, mapProperty, maps, last, action, pk, now, client>>

\* date = timezone.localtime(actions.last().created).isoformat(...): a query
\* of its own; None.created is answered 500
update_actions_last(s) ==
    /\ req[s].pc = "last"
    /\ LET rows == SinceCursor(action, req[s].campaign, req[s].cursor_in)
       IN  IF rows = {}
           THEN /\ req' = [req EXCEPT ![s] = Idle]
                /\ last' = Response(s, req[s], [status |-> 500])
           ELSE /\ req' = [req EXCEPT ![s] =
                              [pc |-> "exclude", campaign |-> req[s].campaign,
                               cursor_in |-> req[s].cursor_in,
                               date |-> LocalIsoFormat(Latest(rows).created)]]
                /\ last' = last
    /\ UNCHANGED <<campaignProperty, mapProperty, maps, action, pk, now, client>>

\* what a chaining client keeps of a response: the date as its next cursor,
\* and each action it was sent, counted
Receive(c, date, rows) ==
    [c EXCEPT !.cursor = date,
              !.received = @ (+) SetToBag({rows[i].pk : i \in 1..Len(rows)})]

\* actions = list(actions.exclude(user=request.user)): the third query, and
\* the response
update_actions_exclude(s) ==
    /\ req[s].pc = "exclude"
    /\ LET rows == CreationOrder(
                       ExcludeUser(SinceCursor(action, req[s].campaign,
                                               req[s].cursor_in),
                                   SessionUser[s]))
       IN  /\ last' = Response(s, req[s],
                               [status |-> 200, date |-> req[s].date,
                                actions |-> [i \in 1..Len(rows) |-> Loads(rows[i].data)],
                                rows |-> rows])
           /\ client' = IF s \in Chained
                        THEN [client EXCEPT ![s] = Receive(@, req[s].date, rows)]
                        ELSE client
    /\ req' = [req EXCEPT ![s] = Idle]
    /\ UNCHANGED <<campaignProperty, mapProperty, maps, action, pk, now>>

\* a filter that also takes the actions created at the saved instant
MapSince_FromSaved(table, map_id, saved) ==
    {x \in table : x.map = map_id /\ x.created >= saved}

\* tile_map.action_set.all().filter(created__gt=tile_map.saved)
MapSince(table, map_id, saved) ==
    {x \in table : x.map = map_id /\ x.created > saved}

MapResponse(s, r, resp) ==
    [op |-> "map_actions", session |-> s, user |-> SessionUser[s],
     owner |-> r.map, saved |-> r.saved, resp |-> resp]

\* map_actions up to `... if actions else tile_map.saved`: the map is looked
\* up and the queryset is evaluated, and kept, for its truth value; an empty
\* one is answered at once with the map's saved time
map_actions_request(s, campaign_id, map_id) ==
    /\ req[s].pc = "idle"
    /\ IF ~MapExists(campaign_id, map_id)
       THEN /\ req' = req
            /\ last' = [op |-> "map_actions", session |-> s,
                        user |-> SessionUser[s], owner |-> map_id,
                        resp |-> [status |-> 404]]
       ELSE LET saved == maps[map_id].saved
                actions == CreationOrder(MapSince(action, map_id, saved))
                r == [pc |-> "map_last", map |-> map_id, saved |-> saved,
                      actions |-> actions]
            IN  IF actions # <<>>
                THEN /\ req' = [req EXCEPT ![s] = r]
                     /\ last' = last
                ELSE /\ req' = req
                     /\ last' = MapResponse(s, r,
                                    [status |-> 200,
                                     date |-> LocalIsoFormat(saved),
                                     actions |-> <<>>, rows |-> <<>>])
    /\ UNCHANGED <<campaignProperty, mapProperty, maps, action, pk, now, client>>

\* actions.last().created: a query of its own; the list answered is the one
\* kept from the first evaluation
map_actions_last(s) ==
    /\ req[s].pc = "map_last"
    /\ LET rows == MapSince(action, req[s].map, req[s].saved)
           kept == req[s].actions
       IN  last' = MapResponse(s, req[s],
                       IF rows = {} THEN [status |-> 500]
                       ELSE [status |-> 200,
                             date |-> LocalIsoFormat(Latest(rows).created),
                             actions |-> [i \in 1..Len(kept) |-> Loads(kept[i].data)],
                             rows |-> kept])
    /\ req' = [req EXCEPT ![s] = Idle]
    /\ UNCHANGED <<campaignProperty, mapProperty, maps, action, pk, now, client>>

\* save_map: Map.objects.get_or_create(campaign=, map_id=), then name, data
\* and saved = timezone.now() are written.  held notes the actions the log
\* holds for the map at that moment.
save_map(campaign_id, map_id, body) ==
    /\ IF campaign_id \in Campaigns
       THEN /\ maps' = [m \in DOMAIN maps \cup {map_id} |->
                           IF m = map_id
                           THEN [campaign |-> campaign_id, name |-> body.name,
                                 data |-> body, saved |-> now,
                                 held |-> {x.pk : x \in {y \in action : y.map = m}}]
                           ELSE maps[m]]
            /\ last' = [op |-> "save_map", owner |-> map_id, body |-> body,
                        resp |-> [status |-> 200, date |-> LocalIsoFormat(now)]]
       ELSE /\ maps' = maps
            /\ last' = [op |-> "save_map", owner |-> map_id, body |-> body,
                        resp |-> [status |-> 404]]
    /\ UNCHANGED <<campaignProperty, mapProperty, syncVars>>

\* a reset that lists the actions of every campaign
reset_actions_request_EveryCampaign(s, campaign_id) ==
    /\ req[s].pc = "idle"
    /\ IF campaign_id \in Campaigns
       THEN /\ req' = [req EXCEPT ![s] =
                          [pc |-> "reset_delete", campaign |-> campaign_id,
                           listed |-> {x.pk : x \in action},
                           todo |-> CreationOrder(action)]]
            /\ last' = last
       ELSE /\ req' = req
            /\ last' = [op |-> "reset_actions", session |-> s, owner |-> campaign_id,
                        resp |-> [status |-> 404]]
    /\ UNCHANGED <<campaignProperty, mapProperty, maps, action, pk, now, client>>

\* a reset that lists only the caller's own actions
reset_actions_request_OwnOnly(s, campaign_id) ==
    /\ req[s].pc = "idle"
    /\ campaign_id \in Campaigns
    /\ LET listed == {x \in action : x.campaign = campaign_id
                                     /\ x.user = SessionUser[s]}
       IN  req' = [req EXCEPT ![s] =
                      [pc |-> "reset_delete", campaign |-> campaign_id,
                       listed |-> {x.pk : x \in listed},
                       todo |-> CreationOrder(listed)]]
    /\ UNCHANGED <<campaignProperty, mapProperty, maps, last, action, pk, now, client>>

\* reset_actions: actions = list(campaign.action_set.all())
reset_actions_request(s, campaign_id) ==
    /\ req[s].pc = "idle"
    /\ LET listed == {x \in action : x.campaign = campaign_id}
       IN  IF campaign_id \in Campaigns
           THEN /\ req' = [req EXCEPT ![s] =
                              [pc |-> "reset_delete", campaign |-> campaign_id,
                               listed |-> {x.pk : x \in listed},
                               todo |-> CreationOrder(listed)]]
                /\ last' = last
           ELSE /\ req' = req
                /\ last' = [op |-> "reset_actions", session |-> s,
                            owner |-> campaign_id, resp |-> [status |-> 404]]
    /\ UNCHANGED <<campaignProperty, mapProperty, maps, action, pk, now, client>>

\* one turn of `for action in actions: action.delete()`: the DELETE is by
\* primary key, and a row already gone is no error
reset_actions_delete(s) ==
    /\ req[s].pc = "reset_delete"
    /\ req[s].todo # <<>>
    /\ action' = {x \in action : x.pk # Head(req[s].todo).pk}
    /\ req' = [req EXCEPT ![s].todo = Tail(@)]
    /\ UNCHANGED <<campaignProperty, mapProperty, maps, last, pk, now, client>>

\* the loop is over: the response
reset_actions_done(s) ==
    /\ req[s].pc = "reset_delete"
    /\ req[s].todo = <<>>
    /\ last' = [op |-> "reset_actions", session |-> s,
                owner |-> req[s].campaign, resp |-> [status |-> 200]]
    /\ client' = [client EXCEPT ![s].reset = @ \cup req[s].listed]
    /\ req' = [req EXCEPT ![s] = Idle]
    /\ UNCHANGED <<campaignProperty, mapProperty, maps, action, pk, now>>

\* time passes
tick ==
    /\ now < MaxNow
    /\ now' = now + 1
    /\ UNCHANGED <<campaignProperty, mapProperty, maps, last, action, pk, req, client>>

----------------------------------------------------------------------------
(* The initial state and the specifications *)

\* the longest permission batch a request carries
MaxBatch == 2

\* all sequences of at most n members of S
SeqsUpTo(S, n) == UNION {[1..k -> S] : k \in 0..n}

Init ==
    \* the campaign is made outside views.py, with its master's IS_MASTER row
    /\ campaignProperty = SetToBag({CRow("c1", 1, "IS_MASTER", "true")})
    \* map m1 has no rows yet; map m2 holds a permission row and is left alone
    /\ mapProperty = SetToBag({MRow("m2", 1, "SHARED_VISION", "e1")})
    /\ maps = [m \in {"m1", "m2"} |->
                   [campaign |-> "c1", name |-> "n0", data |-> "d0",
                    saved |-> 0, held |-> {}]]
    /\ last = [op |-> "none"]
    /\ action = {}
    /\ pk = 1
    /\ now = 1
    /\ req = [s \in Sessions |-> Idle]
    /\ client = [s \in Sessions |->
                    [sent |-> {}, cursor |-> ChainStart,
                     received |-> EmptyBag, reset |-> {}]]

\* "a" chains its cursor and posts its own action now and then; "b", the
\* second session of a's user, only reads, from any cursor; "c" writes, also to
\* a second campaign that map m1 is not part of
NextSync ==
    \/ \E b \in {<<>>, <<[map |-> "", payload |-> "P"]>>} :
           update_actions_request("a", "c1", client["a"].cursor, b)
    \/ \E t \in SuppliedCursors : update_actions_request("b", "c1", t, <<>>)
    \/ update_actions_request("b", "c0", ChainStart, <<>>)
    \/ \E c \in Campaigns, b \in SeqsUpTo(Items, MaxPost) \ {<<>>} :
           update_actions_request("c", c, ChainStart, b)
    \/ \E s \in Sessions : update_actions_now(s)
    \/ \E s \in Sessions : update_actions_create(s)
    \/ \E s \in Sessions : update_actions_if_actions(s)
    \/ \E s \in Sessions : update_actions_last(s)
    \/ \E s \in Sessions : update_actions_exclude(s)
    \/ tick

SpecSync == Init /\ [][NextSync]_vars

\* an item that names a map the campaign does not have, and the items posted
\* with it
Lost == [map |-> "m0", payload |-> "S"]

LogPosts ==
    (SeqsUpTo(Items, 2) \ {<<>>})
    \cup {<<[map |-> "", payload |-> "R"], Lost>>,
          <<Lost, [map |-> "", payload |-> "T"]>>}

\* The log with all its handlers: "a" chains pure pulls, "c" posts batches,
\* and "b" lists a map's actions, saves the map and resets the campaign
NextLog ==
    \/ update_actions_request("a", "c1", client["a"].cursor, <<>>)
    \/ \E b \in LogPosts : update_actions_request("c", "c1", ChainStart, b)
    \/ update_actions_request("c", "c2", ChainStart,
                              <<[map |-> "", payload |-> "P"]>>)
    \/ \E s \in Sessions : update_actions_now(s)
    \/ \E s \in Sessions : update_actions_create(s)
    \/ \E s \in Sessions : update_actions_if_actions(s)
    \/ \E s \in Sessions : update_actions_last(s)
    \/ \E s \in Sessions : update_actions_exclude(s)
    \/ \E m \in {"m1", "m0"} : map_actions_request("b", "c1", m)
    \/ map_actions_last("b")
    \/ save_map("c1", "m1", [name |-> "n1", board |-> "d1"])
    \/ save_map("c0", "m1", [name |-> "n1", board |-> "d1"])
    \/ \E c \in CampaignIds : reset_actions_request("b", c)
    \/ reset_actions_delete("b")
    \/ reset_actions_done("b")
    \/ tick

SpecLog == Init /\ [][NextLog]_vars

\* Maps saved and listed while actions are appended and the log is reset, with
\* a property write and an assign in between; map m3 is not there at first
SavedBodies == {[name |-> "n1", board |-> "d1"], [name |-> "n2"]}

NextMap ==
    \/ update_actions_request("c", "c1", ChainStart,
                              <<[map |-> "m1", payload |-> "Q"]>>)
    \/ update_actions_request("c", "c2", ChainStart,
                              <<[map |-> "", payload |-> "P"]>>)
    \/ update_actions_now("c")
    \/ update_actions_create("c")
    \/ update_actions_if_actions("c")
    \/ update_actions_last("c")
    \/ update_actions_exclude("c")
    \/ \E m \in {"m1", "m3"} : map_actions_request("b", "c1", m)
    \/ map_actions_last("b")
    \/ \E body \in SavedBodies : save_map("c1", "m1", body)
    \/ save_map("c1", "m3", [name |-> "n1", board |-> "d1"])
    \/ save_map("c0", "m1", [name |-> "n1", board |-> "d1"])
    \/ reset_actions_request("b", "c1")
    \/ reset_actions_delete("b")
    \/ reset_actions_done("b")
    \/ save_campaign_property(1, "c1", "theme", "forest")
    \/ map_permissions("c1", "m1",
                       <<[entity |-> "e1", player |-> 1, permission |-> "vision"]>>)
    \/ tick

SpecMap == Init /\ [][NextMap]_vars

\* The permission handlers alone, on a map that starts with no rows
PermEntries ==
    [entity : {"e1"}, player : Scopes, permission : {"vision", "control"}]
    \cup [entity : {"e2"}, player : {NoUser, 1}, permission : {"control"}]

PermCalls ==
    {<<"m1", b>> : b \in SeqsUpTo(PermEntries, MaxBatch)} \cup {<<"m0", <<>>>>}

NextPerm ==
    \/ \E c \in PermCalls : map_permissions("c1", c[1], c[2])
    \/ \E es \in SUBSET Entities : reset_permissions("c1", "m1", es)
    \/ reset_permissions("c1", "m0", {})
    \/ \E es \in SUBSET Entities, ps \in SUBSET Users :
           default_permissions("c1", "m1", es, ps)
    \/ default_permissions("c1", "m0", {}, {})

SpecPerm == Init /\ [][NextPerm]_vars

\* The property store: campaign and map properties, with the permission
\* handlers on a few entries
StoreEntries ==
    [entity : Entities, player : {1}, permission : {"vision"}]
    \cup [entity : {"e1"}, player : {NoUser}, permission : {"vision"}]
    \cup [entity : {"e1"}, player : {1}, permission : {"speed"}]

ThemeValues == {"forest", "desert"}

NextStore ==
    \/ \E v \in ThemeValues : save_campaign_property(1, "c1", "theme", v)
    \/ save_campaign_property(1, "c0", "theme", "forest")
    \/ \E v \in ThemeValues : default_campaign_property(1, "c1", "theme", v)
    \/ \E u \in Users : delete_campaign_property(u, "c1", "theme")
    \/ \E u \in Users, c \in CampaignIds : load_campaign_property(u, c, "theme")
    \/ \E u \in Users : load_campaign(u, "c1")
    \/ \E n \in {"light", "SHARED_VISION"}, v \in Entities :
           save_map_property(1, "c1", "m1", n, v)
    \/ \E v \in Entities : default_map_property(1, "c1", "m1", "light", v)
    \/ default_map_property(1, "c1", "m0", "light", "e1")
    \/ \E n \in {"light", "SHARED_VISION"} :
           delete_map_property(1, "c1", "m1", n)
    \/ \E u \in Users, m \in MapIds : load_map_properties(u, "c1", m)
    \/ \E u \in Users : load_map_properties_for_user(1, "c1", "m1", u)
    \/ \E b \in SeqsUpTo(StoreEntries, MaxBatch) : map_permissions("c1", "m1", b)
    \/ \E es \in SUBSET Entities : reset_permissions("c1", "m1", es)
    \/ \E es \in SUBSET Entities, ps \in SUBSET {1} :
           default_permissions("c1", "m1", es, ps)

SpecStore == Init /\ [][NextStore]_vars

----------------------------------------------------------------------------
(* Permission rows per entity *)

\* the number of rows of the map with this name and value, in any scope
RowsOf(table, map_id, name, entity) ==
    Count(table, {r \in DOMAIN table :
                     r.map = map_id /\ r.name = name /\ r.value = entity})

\* the number of rows of the map with this name and value in one scope
RowsOfOwner(table, map_id, owner, name, entity) ==
    Count(table, {MRow(map_id, owner, name, entity)})

EntryLeavesOneRow(table, map_id, permissions, i) ==
    LET after == AssignPrefix(table, map_id, permissions, i).table
        name == PropertyName[permissions[i].permission]
        e == permissions[i].entity
    IN  /\ RowsOf(after, map_id, name, e) = 1
        /\ RowsOfOwner(after, map_id, permissions[i].player, name, e) = 1

\* the same, with the rows of the other owners left as they were
EntryLeavesOneRowOfTarget(table, map_id, permissions, i) ==
    LET before == AssignPrefix(table, map_id, permissions, i - 1).table
        after == AssignPrefix(table, map_id, permissions, i).table
        name == PropertyName[permissions[i].permission]
        e == permissions[i].entity
    IN  /\ RowsOfOwner(after, map_id, permissions[i].player, name, e) = 1
        /\ \A o \in Scopes \ {permissions[i].player} :
               RowsOfOwner(after, map_id, o, name, e)
                   = RowsOfOwner(before, map_id, o, name, e)

AssignAnswered200 ==
    last'.op = "map_permissions" /\ last'.resp.status = 200

----------------------------------------------------------------------------
(* Property resolution *)

\* C8: resolve(owner, user, name) returns the user-scoped row's value when a
\* user-scoped row exists (also when a default row of the name exists),
\* otherwise the default-scoped row's value, and NOT_FOUND when neither row
\* exists.
C8_ResolvePrefersUserRow ==
    (last.op = "load_campaign_property" /\ last.owner \in Campaigns) =>
        LET UserRows == {r \in DOMAIN campaignProperty :
                            /\ r.campaign = last.owner /\ r.user = last.user
                            /\ r.name = last.name}
            DefaultRows == {r \in DOMAIN campaignProperty :
                               /\ r.campaign = last.owner /\ r.user = NoUser
                               /\ r.name = last.name}
            Returns(rows) ==
                /\ last.resp.status = 200
                /\ \E r \in rows :
                       last.resp.properties
                           = SetToBag({[name |-> last.name, value |-> r.value]})
        IN  IF UserRows # {} THEN Returns(UserRows)
            ELSE IF DefaultRows # {} THEN Returns(DefaultRows)
            ELSE last.resp.status = 404

\* C8 witness: a resolve of "theme" for user 1 has answered while user 1's
\* row and the default row hold different values.
C8_Witness ==
    /\ last.op = "load_campaign_property"
    /\ last.user = 1
    /\ last.resp.status = 200
    /\ BagIn(CRow("c1", 1, "theme", "desert"), campaignProperty)
    /\ BagIn(CRow("c1", NoUser, "theme", "forest"), campaignProperty)

\* how many of the rows in one scope carry this name and value
ScopeCopies(table, owned, scope, nv) ==
    Count(table, {r \in owned : r.user = scope /\ NameValue(r) = nv})

\* every user row, and the default rows whose name the user has no row of;
\* owned are the owner's rows
IsResolved(properties, table, owned, user) ==
    \A nv \in {NameValue(r) : r \in owned} \cup DOMAIN properties :
        CopiesIn(nv, properties)
            = ScopeCopies(table, owned, user, nv)
              + (IF \E r \in owned : r.user = user /\ r.name = nv.name THEN 0
                 ELSE ScopeCopies(table, owned, NoUser, nv))

\* every user row, and every default row
IsUserPlusDefault(properties, table, owned, user) ==
    \A nv \in {NameValue(r) : r \in owned} \cup DOMAIN properties :
        CopiesIn(nv, properties)
            = ScopeCopies(table, owned, user, nv)
              + ScopeCopies(table, owned, NoUser, nv)

MapLoads == {"load_map_properties", "load_map_properties_for_user"}

CampaignRows(campaign_id) ==
    {r \in DOMAIN campaignProperty : r.campaign = campaign_id}

MapRows(map_id) == {r \in DOMAIN mapProperty : r.map = map_id}

\* C9 as stated: resolve_all and resolve_all_for, for a campaign and for a
\* map alike, return every user-scoped row of the target user plus only the
\* default rows whose name has no user-scoped row of that user.
C9_ResolveAllOverrides ==
    /\ (last.op = "load_campaign" /\ last.resp.status = 200) =>
           IsResolved(last.resp.properties, campaignProperty,
                      CampaignRows(last.owner), last.user)
    /\ (last.op \in MapLoads /\ last.resp.status = 200) =>
           IsResolved(last.resp.properties, mapProperty,
                      MapRows(last.owner), last.user)

\* C9 amended: for a campaign, resolve_all returns every user-scoped row plus
\* only the default rows whose name has no user-scoped row; for a map,
\* resolve_all and resolve_all_for return every user-scoped row of the target
\* user plus every default-scoped row, so a name with both rows appears twice.
C9_ResolveAllByOwnerKind ==
    /\ (last.op = "load_campaign" /\ last.resp.status = 200) =>
           IsResolved(last.resp.properties, campaignProperty,
                      CampaignRows(last.owner), last.user)
    /\ (last.op \in MapLoads /\ last.resp.status = 200) =>
           IsUserPlusDefault(last.resp.properties, mapProperty,
                             MapRows(last.owner), last.user)

\* C9 witness: the map's properties were listed for user 1 while "light" has
\* a default row and a row of user 1 with another value.
C9_Witness ==
    /\ last.op \in MapLoads
    /\ last.user = 1
    /\ last.resp.status = 200
    /\ BagIn(MRow("m1", 1, "light", "e2"), mapProperty)
    /\ BagIn(MRow("m1", NoUser, "light", "e1"), mapProperty)

----------------------------------------------------------------------------
(* Rows per key *)

\* the rows of a table that agree with row k on owner, scope and name
CampaignKeyRows(k) ==
    {r \in DOMAIN campaignProperty :
        r.campaign = k.campaign /\ r.user = k.user /\ r.name = k.name}

MapKeyRows(k) ==
    {r \in DOMAIN mapProperty :
        r.map = k.map /\ r.user = k.user /\ r.name = k.name}

----------------------------------------------------------------------------
(* The action log and sync *)

SyncAnswered200 == last.op = "update_actions" /\ last.resp.status = 200

\* the rows the sync calls of one user have appended
SentBy(user) ==
    UNION {client[s].sent : s \in {x \in Sessions : SessionUser[x] = user}}

ReturnedPks == {last.resp.rows[i].pk : i \in 1..Len(last.resp.rows)}

\* C3: a sync call never returns to its caller an action that a sync call of
\* the same user appended: not the call that appended it, not a later call,
\* not a call of the user's other session, whatever cursor it passes; and so
\* the chaining client never holds an action of its own user.
C3_NoEchoToAuthor ==
    /\ SyncAnswered200 => ReturnedPks \cap SentBy(last.user) = {}
    /\ \A s \in Chained :
           BagToSet(client[s].received) \cap SentBy(SessionUser[s]) = {}

\* the user's second session is answered with a later action of the other
\* user while an action of its own user lies after the cursor it passed
C3_Witness ==
    /\ SyncAnswered200
    /\ last.session = "b"
    /\ \E x \in action :
           /\ x.pk \in client["a"].sent
           /\ x.campaign = last.owner
           /\ x.created > FromIsoFormat(last.cursor_in)
           /\ \E p \in ReturnedPks : p > x.pk

\* C4: the chaining client receives every action another user appends to the
\* campaign.  Cursors never go back and a call returns only actions created
\* after its cursor, so an action of another user that the client's cursor
\* has reached or passed is received by then or never: every such action is
\* among the actions the client has received.
C4_ChainedClientMissesNothing ==
    \A s \in Chained : \A x \in action :
        (/\ x.campaign = "c1"
         /\ x.user # SessionUser[s]
         /\ x.created > FromIsoFormat(ChainStart)
         /\ x.created <= FromIsoFormat(client[s].cursor))
            => BagIn(x.pk, client[s].received)

\* C5: the chaining client is never sent the same action in two responses.
C5_NoActionTwice ==
    \A s \in Chained : \A p \in BagToSet(client[s].received) :
        CopiesIn(p, client[s].received) <= 1

\* C6: the date a sync call answers with is never before the cursor it was
\* passed.  Where the handler finds an action of the campaign created after
\* the cursor, the date is the creation time of the latest such action, the
\* caller's own included; where it finds none, the date is the cursor it was
\* passed, unchanged.
C6_NewCursor ==
    [][\A s \in Sessions :
          LET after == {x \in action :
                           /\ x.campaign = req[s].campaign
                           /\ x.created > FromIsoFormat(req[s].cursor_in)}
          IN  /\ (req[s].pc = "if_actions" /\ req'[s].pc = "exclude")
                     => after = {} /\ req'[s].date = req[s].cursor_in
              /\ (req[s].pc = "if_actions" /\ req'[s].pc = "last")
                     => after # {}
              /\ (req[s].pc = "last" /\ req'[s].pc = "exclude")
                     => \E x \in after :
                            /\ \A y \in after : y.created <= x.created
                            /\ FromIsoFormat(req'[s].date) = x.created
              /\ (req[s].pc = "exclude" /\ req'[s].pc = "idle")
                     => /\ last'.session = s
                        /\ last'.resp.status = 200
                        /\ last'.resp.date = req[s].date
                        /\ FromIsoFormat(last'.resp.date)
                               >= FromIsoFormat(req[s].cursor_in)
      ]_vars

\* the chaining client is answered with no action and a later date: the
\* creation time of the action it has just appended itself
C6_Witness ==
    /\ SyncAnswered200
    /\ last.session = "a"
    /\ req["a"].pc = "idle"
    /\ last.resp.rows = <<>>
    /\ FromIsoFormat(last.resp.date) > FromIsoFormat(last.cursor_in)
    /\ \E x \in action :
           x.pk \in client["a"].sent /\ x.created = FromIsoFormat(last.resp.date)

\* C7: a sync call returns exactly the campaign's actions that were created
\* after the cursor it was passed and whose author is not the caller, each
\* once, in creation order, each as the action that was posted.
C7_SyncReturns ==
    [][\A s \in Sessions :
          (req[s].pc = "exclude" /\ req'[s].pc = "idle") =>
              LET rows == last'.resp.rows
                  acts == last'.resp.actions
              IN  /\ {rows[i] : i \in 1..Len(rows)} =
                         {x \in action :
                             /\ x.campaign = req[s].campaign
                             /\ x.created > FromIsoFormat(req[s].cursor_in)
                             /\ x.user # SessionUser[s]}
                  /\ \A i, j \in 1..Len(rows) :
                         i < j => /\ rows[i] # rows[j]
                                  /\ rows[i].created <= rows[j].created
                  /\ Len(acts) = Len(rows)
                  /\ \A i \in 1..Len(rows) :
                         /\ Dumps(acts[i]) = rows[i].data
                         /\ acts[i].map = rows[i].map
      ]_vars

\* the chaining client appends an action of its own after the other user's
\* action and is answered with the other user's action alone
C7_Witness ==
    /\ SyncAnswered200
    /\ last.session = "a"
    /\ req["a"].pc = "idle"
    /\ Len(last.resp.rows) = 1
    /\ last.resp.actions[1].payload = "Q"
    /\ \E x \in action :
           /\ x.pk \in client["a"].sent
           /\ x.created > FromIsoFormat(last.cursor_in)
           /\ x.pk > last.resp.rows[1].pk

----------------------------------------------------------------------------
(* Writes, deletes and resets of the property store *)

PropertyWrites ==
    {"save_campaign_property", "default_campaign_property",
     "save_map_property", "default_map_property"}

CampaignOps ==
    {"save_campaign_property", "default_campaign_property",
     "delete_campaign_property"}

\* the scope a write or delete request addresses
KeyScope(l) ==
    IF l.op \in {"default_campaign_property", "default_map_property"}
    THEN NoUser ELSE l.user

\* the rows of a table that a write or delete request addresses
KeyRows(l, cp, mp) ==
    IF l.op \in CampaignOps
    THEN {r \in DOMAIN cp : /\ r.campaign = l.owner /\ r.user = KeyScope(l)
                            /\ r.name = l.name}
    ELSE {r \in DOMAIN mp : /\ r.map = l.owner /\ r.user = KeyScope(l)
                            /\ r.name = l.name}

OwnerExists(l) ==
    IF l.op \in CampaignOps THEN l.owner \in Campaigns ELSE l.owner \in DOMAIN maps

\* a write follows a write of the same kind to the same key with another value
SecondWrite ==
    /\ last.op \in PropertyWrites
    /\ last'.op = last.op
    /\ last'.user = last.user /\ last'.owner = last.owner /\ last'.name = last.name
    /\ last'.value # last.value
    /\ OwnerExists(last)

\* the key holds one row, with the value written last, and a resolve of the
\* key answers with that value
HoldsSecondValue ==
    LET keyRows == KeyRows(last', campaignProperty', mapProperty')
        written == [name |-> last'.name, value |-> last'.value]
        readers == IF KeyScope(last') # NoUser THEN {last'.user}
                   ELSE {u \in Users :
                            \A r \in DOMAIN campaignProperty' :
                                ~(/\ r.campaign = last'.owner /\ r.user = u
                                  /\ r.name = last'.name)}
    IN  /\ last'.resp.status = 200
        /\ {r.value : r \in keyRows} = {last'.value}
        /\ IF last'.op \in CampaignOps
           THEN /\ Count(campaignProperty', keyRows) = 1
                /\ \A u \in readers :
                       CampaignPropertyResponses(campaignProperty', u,
                                                 last'.owner, last'.name)
                           = {[status |-> 200,
                               properties |-> SetToBag({written})]}
           ELSE /\ Count(mapProperty', keyRows) = 1
                /\ \A u \in Users :
                       (KeyScope(last') \in {NoUser, u}) =>
                           BagIn(written,
                                 MapProperties(mapProperty', u, last'.owner))

\* C11 as the spec words it: two writes of different values to one key, one
\* after the other, leave one row for the key, holding the second value, and
\* a resolve of the key then answers with the second value.
C11_SecondWriteWins == [][SecondWrite => HoldsSecondValue]_vars

\* C11, amended: the same of two writes of which the first is answered 200,
\* which is every write to a key that holds at most one row.
C11_SecondAnsweredWriteWins ==
    [][(SecondWrite /\ last.resp.status = 200) => HoldsSecondValue]_vars

\* a write answered 200 has replaced another value that an earlier write left
\* on its key
C11_Witness ==
    /\ last.op \in PropertyWrites
    /\ last.resp.status = 200
    /\ last.before # {}
    /\ last.value \notin last.before

\* C13: an assign whose batch names a permission kind outside the seven is
\* answered 400.
C13_UnknownKindAnswered400 ==
    (/\ last.op = "map_permissions"
     /\ last.owner \in DOMAIN maps
     /\ \E i \in 1..Len(last.permissions) :
            last.permissions[i].permission \notin DOMAIN PropertyName)
        => last.resp.status = 400

\* C14: a reset_permissions answered 200 leaves on its map no row with a
\* permission name and a value among the entities, whoever owns it, and leaves
\* every other row of every table as it was.
C14_ResetFrame ==
    [][(last'.op = "reset_permissions" /\ last'.resp.status = 200) =>
          /\ \A r \in DOMAIN mapProperty \cup DOMAIN mapProperty' :
                 CopiesIn(r, mapProperty') =
                     IF /\ r.map = last'.owner /\ r.name \in PERMISSIONS
                        /\ r.value \in last'.entities
                     THEN 0 ELSE CopiesIn(r, mapProperty)
          /\ campaignProperty' = campaignProperty
      ]_vars

\* a reset of e1 on m1 after which m1 keeps a row of e1 that is no permission,
\* m1 keeps a permission row of e2, and m2 keeps its permission row of e1
C14_Witness ==
    /\ last.op = "reset_permissions"
    /\ last.owner = "m1"
    /\ last.entities = {"e1"}
    /\ last.resp.status = 200
    /\ BagIn(MRow("m1", 1, "light", "e1"), mapProperty)
    /\ BagIn(MRow("m1", 1, "SHARED_VISION", "e2"), mapProperty)
    /\ BagIn(MRow("m2", 1, "SHARED_VISION", "e1"), mapProperty)

IdempotentWrites ==
    PropertyWrites \cup {"reset_permissions", "default_permissions",
                         "map_permissions"}

\* C16: a property write, default write, reset_permissions,
\* default_permissions or assign that repeats the request handled just before
\* it leaves every property row as that request left it.
C16_RetryChangesNothing ==
    [][(last'.op \in IdempotentWrites /\ last'.retry) =>
          campaignProperty' = campaignProperty /\ mapProperty' = mapProperty
      ]_vars

\* an assign of two entries is handled a second time
C16_Witness ==
    /\ last.op = "map_permissions"
    /\ last.retry
    /\ last.resp.status = 200
    /\ Len(last.permissions) = 2
    /\ last.permissions[1].player = last.permissions[2].player

PropertyDeletes == {"delete_campaign_property", "delete_map_property"}

\* the tables are as they were, but for the rows of the key, which are gone
KeyRowsRemoved ==
    LET gone == KeyRows(last', campaignProperty, mapProperty)
    IN  IF last'.op \in CampaignOps
        THEN /\ mapProperty' = mapProperty
             /\ \A r \in DOMAIN campaignProperty \cup DOMAIN campaignProperty' :
                    CopiesIn(r, campaignProperty') =
                        IF r \in gone THEN 0 ELSE CopiesIn(r, campaignProperty)
        ELSE /\ campaignProperty' = campaignProperty
             /\ \A r \in DOMAIN mapProperty \cup DOMAIN mapProperty' :
                    CopiesIn(r, mapProperty') =
                        IF r \in gone THEN 0 ELSE CopiesIn(r, mapProperty)

\* a resolve of the deleted key answers with the default row's value, or finds
\* nothing under the name
ResolvesToDefault ==
    IF last'.op \in CampaignOps
    THEN LET defaults == {r \in DOMAIN campaignProperty' :
                             /\ r.campaign = last'.owner /\ r.user = NoUser
                             /\ r.name = last'.name}
         IN  CampaignPropertyResponses(campaignProperty', last'.user,
                                       last'.owner, last'.name)
                 = IF defaults = {} THEN {[status |-> 404]}
                   ELSE {[status |-> 200,
                          properties |-> SetToBag({NameValue(r)})] :
                            r \in defaults}
    ELSE LET defaults == {r \in DOMAIN mapProperty' :
                             /\ r.map = last'.owner /\ r.user = NoUser
                             /\ r.name = last'.name}
             listed == MapProperties(mapProperty', last'.user, last'.owner)
         IN  {nv \in BagToSet(listed) : nv.name = last'.name}
                 = {NameValue(r) : r \in defaults}

\* what a delete does where the key holds the given rows
DeleteOutcome(held) ==
    IF held = {}
    THEN /\ last'.resp.status = 404
         /\ campaignProperty' = campaignProperty
         /\ mapProperty' = mapProperty
    ELSE /\ last'.resp.status = 200
         /\ KeyRowsRemoved
         /\ ResolvesToDefault

\* C17 as the spec words it: a delete removes the caller's rows of the name
\* and nothing else, after which a resolve answers with the default value or
\* NOT_FOUND; a caller with no row of the name is answered 404, whether a
\* default row exists or not, and nothing changes.
C17_DeleteRemovesCallersRow ==
    [][(last'.op \in PropertyDeletes /\ OwnerExists(last')) =>
          DeleteOutcome(KeyRows(last', campaignProperty, mapProperty))
      ]_vars

\* C17, amended: the same where the caller holds at most one row of the name;
\* where it holds several, the delete is answered 500 and nothing changes.
C17_DeleteRemovesCallersOnlyRow ==
    [][(last'.op \in PropertyDeletes /\ OwnerExists(last')) =>
          LET held == KeyRows(last', campaignProperty, mapProperty)
          IN  IF Cardinality(held) <= 1
              THEN DeleteOutcome(held)
              ELSE /\ last'.resp.status = 500
                   /\ campaignProperty' = campaignProperty
                   /\ mapProperty' = mapProperty
      ]_vars

\* a caller with no row of its own is answered 404 while the default row of
\* the name stays
C17_Witness ==
    /\ last.op = "delete_campaign_property"
    /\ last.resp.status = 404
    /\ last.before = {}
    /\ \E v \in ThemeValues :
           BagIn(CRow("c1", NoUser, "theme", v), campaignProperty)

\* a caller's row is deleted and the default row of the name is what is left
C17_WitnessDeleted ==
    /\ last.op = "delete_campaign_property"
    /\ last.resp.status = 200
    /\ \E v \in ThemeValues :
           BagIn(CRow("c1", NoUser, "theme", v), campaignProperty)

----------------------------------------------------------------------------
(* The action log: map_actions, reset_actions, batches *)

\* the members of a sequence
Range(seq) == {seq[i] : i \in 1..Len(seq)}

\* C12: map_actions answers with exactly the actions that reference the map
\* and were created after map.saved (those the log holds when the handler
\* reads them), each once, ordered by creation time, and the date it answers
\* with is the creation time of the last action it returns, or map.saved when
\* it returns none.
C12_MapActions ==
    [][\A s \in Sessions :
          /\ (req[s].pc = "idle" /\ req'[s].pc = "map_last") =>
                 Range(req'[s].actions) =
                     {x \in action : /\ x.map = req'[s].map
                                     /\ x.created > maps[req'[s].map].saved}
          /\ (/\ last' # last
              /\ last'.op = "map_actions"
              /\ last'.session = s
              /\ last'.resp.status = 200) =>
                 LET rows == last'.resp.rows
                 IN  /\ req[s].pc = "idle" =>
                            {x \in action : /\ x.map = last'.owner
                                            /\ x.created > last'.saved} = {}
                     /\ \A i, j \in 1..Len(rows) :
                            i < j => /\ rows[i] # rows[j]
                                     /\ rows[i].created <= rows[j].created
                     /\ \A i \in 1..Len(rows) :
                            /\ rows[i].map = last'.owner
                            /\ rows[i].created > last'.saved
                            /\ Dumps(last'.resp.actions[i]) = rows[i].data
                     /\ Len(last'.resp.actions) = Len(rows)
                     /\ FromIsoFormat(last'.resp.date) =
                            IF rows = <<>> THEN last'.saved
                            ELSE rows[Len(rows)].created
      ]_vars

\* C18: a reset_actions lists every action its campaign holds when it starts
\* and deletes actions of that list only; when it is answered, none of them is
\* in the log, and no sync answered from then on returns one of them.  (So a
\* pull that follows returns only actions appended after the reset began.)
C18_ResetEmptiesCampaign ==
    [][\A s \in Sessions :
          /\ (req[s].pc = "idle" /\ req'[s].pc = "reset_delete") =>
                 req'[s].listed =
                     {x.pk : x \in {y \in action : y.campaign = req'[s].campaign}}
          /\ (req[s].pc = "reset_delete" /\ req'[s] # req[s]) =>
                 /\ action' \subseteq action
                 /\ \A x \in action \ action' :
                        x.pk \in req[s].listed /\ x.campaign = req[s].campaign
          /\ (req[s].pc = "reset_delete" /\ req'[s].pc = "idle") =>
                 /\ last'.op = "reset_actions" /\ last'.resp.status = 200
                 /\ \A x \in action' : x.pk \notin req[s].listed
          /\ (req[s].pc = "exclude" /\ req'[s].pc = "idle") =>
                 \A x \in Range(last'.resp.rows) :
                     \A t \in Sessions : x.pk \notin client[t].reset
          /\ \A x \in action' : \A t \in Sessions : x.pk \notin client'[t].reset
      ]_vars

\* after a reset that deleted an action, the chaining client pulls and is
\* answered with the one action appended since
C18_Witness ==
    /\ last.op = "update_actions"
    /\ last.session = "a"
    /\ last.resp.status = 200
    /\ client["b"].reset # {}
    /\ Len(last.resp.rows) = 1
    /\ \A p \in client["b"].reset : p < last.resp.rows[1].pk

\* after a reset that deleted an action, a pull finds nothing: it is
\* answered with no action and the cursor it passed, while the other campaign
\* keeps the action it held before the reset
C18_WitnessEmpty ==
    /\ last.op = "update_actions"
    /\ last.session = "a"
    /\ last.resp.status = 200
    /\ client["b"].reset # {}
    /\ last.resp.rows = <<>>
    /\ last.resp.date = last.cursor_in
    /\ \E x \in action : x.campaign = "c2" /\ \E p \in client["b"].reset : x.pk < p

\* C19: the items of a sync batch are appended one at a time, in the order of
\* the batch, each as a row of the caller, and only while every item so far
\* names no map or a map of the campaign.  When the batch reaches an item that
\* names a map the campaign does not have, the call is answered 404 with no
\* action list, the rows appended for the items before it are left in the log,
\* and the call ends there, so that no item from that one on is appended.
C19_BatchStopsAtMissingMap ==
    [][\A s \in Sessions :
          /\ (req[s].pc = "create" /\ req'[s] # req[s]) =>
                 LET r == req[s]
                     item == Head(r.todo)
                 IN  /\ r.posted[Len(r.made) + 1] = item
                     /\ Len(r.made) + Len(r.todo) = Len(r.posted)
                     /\ item.map = "" \/ MapExists(r.campaign, item.map)
                     /\ \A i \in 1..Len(r.made) :
                            r.posted[i].map = ""
                                \/ MapExists(r.campaign, r.posted[i].map)
                     /\ \E x \in action' \ action :
                            /\ action' = action \cup {x}
                            /\ x.pk = pk
                            /\ x.user = SessionUser[s]
                            /\ x.campaign = r.campaign
                            /\ x.map = item.map
                            /\ x.data = Dumps(item)
          /\ (req[s].pc = "now" /\ req'[s].pc = "idle") =>
                 LET r == req[s]
                 IN  /\ Head(r.todo).map # ""
                     /\ ~MapExists(r.campaign, Head(r.todo).map)
                     /\ r.posted[Len(r.made) + 1] = Head(r.todo)
                     /\ last'.op = "update_actions" /\ last'.session = s
                     /\ last'.resp = [status |-> 404]
                     /\ action' = action
                     /\ req'[s] = Idle
      ]_vars

\* the item posted before the one that failed is delivered to the other
\* user's client, and the writer's call is over
C19_Witness ==
    /\ last.op = "update_actions"
    /\ last.session = "a"
    /\ last.resp.status = 200
    /\ req["c"].pc = "idle"
    /\ Len(last.resp.actions) = 1
    /\ last.resp.actions[1].payload = "R"
    /\ \A x \in action : Loads(x.data).payload \notin {"S", "T"}

----------------------------------------------------------------------------
(* Saved maps, the log as a whole, and the frame of an assign *)

\* the actions of the log that reference a map
OnMap(table, map_id) == {x \in table : x.map = map_id}

\* C21: a save that is answered 200 leaves the map there, created when it was
\* absent, with the name and the document of the call in place of those it
\* had and saved set to the time of the save, which it reports, and leaves
\* every other map as it was.  A list_map_actions that starts after it returns
\* none of the actions the log held for the map when it was saved, and while
\* no other action references the map it returns no action and reports the
\* saved time as cursor.
C21_SaveSeedsCursor ==
    [][/\ (/\ last'.op = "save_map"
           /\ last'.resp.status = 200
           /\ (last' # last \/ maps' # maps)) =>
              LET m == last'.owner
              IN  /\ DOMAIN maps' = DOMAIN maps \cup {m}
                  /\ \A o \in DOMAIN maps \ {m} : maps'[o] = maps[o]
                  /\ maps'[m].name = last'.body.name
                  /\ maps'[m].data = last'.body
                  /\ maps'[m].saved = now
                  /\ FromIsoFormat(last'.resp.date) = maps'[m].saved
                  /\ \A x \in OnMap(action', m) : x.created <= maps'[m].saved
       /\ \A s \in Sessions :
              /\ (req[s].pc = "idle" /\ req'[s].pc = "map_last") =>
                     LET m == req'[s].map
                     IN  /\ \A x \in Range(req'[s].actions) :
                                x.pk \notin maps[m].held
                         /\ \E x \in OnMap(action, m) : x.pk \notin maps[m].held
              /\ (/\ last' # last
                  /\ last'.op = "map_actions"
                  /\ last'.session = s
                  /\ last'.resp.status = 200) =>
                     IF req[s].pc = "map_last"
                     THEN last'.resp.rows = req[s].actions
                     ELSE /\ last'.resp.rows = <<>>
                          /\ last'.resp.actions = <<>>
                          /\ FromIsoFormat(last'.resp.date)
                                 = maps[last'.owner].saved
              /\ (/\ req[s].pc = "idle"
                  /\ req'[s].pc = "idle"
                  /\ last' # last
                  /\ last'.op = "map_actions"
                  /\ last'.session = s
                  /\ last'.resp.status = 404) =>
                     last'.owner \notin DOMAIN maps
      ]_vars

\* map m1 was saved, with a second document, at the very instant an action on
\* it was created; the list that follows returns nothing and reports that
\* instant; map m3 has been created by a save
C21_Witness ==
    /\ last.op = "map_actions"
    /\ last.owner = "m1"
    /\ last.resp.status = 200
    /\ last.resp.rows = <<>>
    /\ maps["m1"].saved > 0
    /\ FromIsoFormat(last.resp.date) = maps["m1"].saved
    /\ maps["m1"].data = [name |-> "n2"]
    /\ \E x \in action : x.pk \in maps["m1"].held /\ x.created = maps["m1"].saved
    /\ "m3" \in DOMAIN maps

EntryName(permission) == PropertyName[permission.permission]

\* C23: an assign changes only permission rows of a kind and an entity that
\* one of its entries names together: every other row of the map, whoever owns
\* it, is there after the call as many times as before.
C23_AssignFrame ==
    [][(last'.op = "map_permissions" /\ last'.resp.status = 200) =>
          \A r \in DOMAIN mapProperty \cup DOMAIN mapProperty' :
              (~\E i \in 1..Len(last'.permissions) :
                    /\ last'.permissions[i].entity = r.value
                    /\ EntryName(last'.permissions[i]) = r.name)
                  => Count(mapProperty', {r}) = Count(mapProperty, {r})
      ]_vars

====
